---- MODULE Spec2Model ----
(***************************************************************************)
(* bb-storage: the circular blob access backend                            *)
(* (pkg/blobstore/content_addressable_storage_blob_access.go, package      *)
(* circular), the remote CAS backend of the same file, and the buffers of  *)
(* pkg/blobstore/buffer: cas_cloned_buffer.go, error_buffer.go and         *)
(* cas_error_handling_buffer.go.                                           *)
(***************************************************************************)
EXTENDS Integers, Sequences, FiniteSets, TLC

\* ------------------------------------------------------------------ bounds
\* Number of bytes the data ring holds.
RingSize == 2
\* StateStore.Allocate is not called once the write cursor has reached this.
MaxWrite == 3

VARIABLES
    ba,     \* circularBlobAccess: lock, offsetStore, stateStore (cursors), dataStore
    th,     \* the goroutines calling the circular backend: position and locals
    hist    \* history of the circular backend: stale and clobbered regions

circularVars == <<ba, th, hist>>

\* CloneStream is not called more than this many times on one fan-out.
MaxClones == 2

VARIABLES
    b,      \* casClonedBuffer: lock, consumersRemaining, consumersWaiting, needsValidation
    cs,     \* the calls of toChunkReader, in the order they were made
    mux,    \* the multiplexed chunk reader and the base buffer under it
    env     \* the callers: handles held, handles spent, CloneStream calls, panic

cloneVars == <<b, cs, mux, env>>

\* An error buffer is not cloned into more than this many buffers.
MaxErrorBuffers == 3

VARIABLES
    eb      \* the error buffers in the caller's hands, the last call and its policy

errorVars == <<eb>>

\* An ErrorHandler hands out at most this many replacement buffers.
MaxRetries == 2

VARIABLES
    eh      \* a casErrorHandlingBuffer, the operation on it, its reader and policy

retryVars == <<eh>>

\* The chunk reader of a buffer uploaded to the remote backend yields at most
\* this many chunks.
MaxChunks == 3

VARIABLES
    rm      \* a call of the remote backend: Put or FindMissing, and what it sent

remoteVars == <<rm>>

notCircularVars == <<cloneVars, errorVars, retryVars, remoteVars>>
notCloneVars == <<circularVars, errorVars, retryVars, remoteVars>>
notErrorVars == <<circularVars, cloneVars, retryVars, remoteVars>>
notRetryVars == <<circularVars, cloneVars, errorVars, remoteVars>>
notRemoteVars == <<circularVars, cloneVars, errorVars, retryVars>>

Threads == {"t1", "t2"}
NoThread == "none"
\* Two blobs: digest 1 names a 1-byte blob, digest 2 a 2-byte blob.
Digests == {1, 2}

\* digest.GetSizeBytes(): the size is part of the digest.
GetSizeBytes(d) == IF d % 2 = 1 THEN 1 ELSE 2

\* The bytes of the blob a digest names: byte i of blob d is <<d, i>>.
Content(d) == [i \in 1..GetSizeBytes(d) |-> <<d, i>>]

NoByte == <<0, 0>>
NoEntry == [offset |-> 0, length |-> 0, ok |-> FALSE]

\* ------------------------------------------------ the three stores (interfaces)
\* Cursors.Contains: the region [offset, offset+length) lies in [Read, Write).
Contains(cursors, offset, length) ==
    /\ cursors.Read <= offset
    /\ offset + length <= cursors.Write

\* StateStore.GetCursors
GetCursors(stateStore) == stateStore

\* StateStore.Allocate: reserve sizeBytes at the write cursor; the read cursor
\* is dragged along so that the span never exceeds the ring.
Allocate(stateStore, sizeBytes) ==
    LET w == stateStore.Write + sizeBytes
    IN  [Read |-> IF w - stateStore.Read > RingSize
                  THEN w - RingSize ELSE stateStore.Read,
         Write |-> w]

\* StateStore.Invalidate: drop the region, and all that precedes it, from the span.
Invalidate(stateStore, offset, sizeBytes) ==
    IF Contains(stateStore, offset, sizeBytes)
    THEN [stateStore EXCEPT !.Read = offset + sizeBytes]
    ELSE stateStore

\* OffsetStore.Get: the entry of the digest, if it lies in the cursors given.
OffsetStoreGet(offsetStore, digest, cursors) ==
    LET e == offsetStore[digest]
    IN  IF e.ok /\ Contains(cursors, e.offset, e.length) THEN e ELSE NoEntry

\* OffsetStore.Put
OffsetStorePut(offsetStore, digest, offset, length, cursors) ==
    [offsetStore EXCEPT ![digest] = [offset |-> offset, length |-> length, ok |-> TRUE]]

\* DataStore: byte at ring offset o lives in cell o % RingSize.
Cell(o) == o % RingSize
Cells(offset, length) == {Cell(offset + i) : i \in 0..(length - 1)}

\* DataStore.Get(offset, size): the byte the lazy reader yields at position i (1-based).
DataStoreGet(dataStore, offset, i) == dataStore[Cell(offset + i - 1)]

\* --------------------------------------------------------------- thread state
Idle == [pc |-> "idle", op |-> "none", digest |-> 0, offset |-> 0,
         n |-> 0, buf |-> <<>>, res |-> "none", fresh |-> "no",
         digests |-> {}, missing |-> {}, calls |-> {}, buffer |-> "none"]

CircularInit ==
    /\ ba = [lock |-> NoThread,
             offsetStore |-> [d \in Digests |-> NoEntry],
             stateStore |-> [Read |-> 0, Write |-> 0],
             dataStore |-> [c \in 0..(RingSize - 1) |-> NoByte]]
    /\ th = [t \in Threads |-> Idle]
    /\ hist = [clobbered |-> {}, quiet |-> [d \in Digests |-> FALSE]]

\* Every Allocate or Invalidate call ends the quiet period of every index entry.
Disturb(h) == [h EXCEPT !.quiet = [d \in Digests |-> FALSE]]
Unfresh(f) == [t \in Threads |-> [f[t] EXCEPT !.fresh = "no"]]

\* A data write of another Put into cell k: the Gets reading a region that holds
\* that cell no longer read what was committed.
Clobber(f, t, k) ==
    [u \in Threads |->
        IF /\ u # t
           /\ f[u].pc = "get_read"
           /\ f[u].fresh = "intact"
           /\ k \in Cells(f[u].offset, GetSizeBytes(f[u].digest))
        THEN [f[u] EXCEPT !.fresh = "quiet"]
        ELSE f[u]]

\* ba.lock.Lock(): the goroutine blocks until the mutex is free.
NextPc(pc) ==
    CASE pc = "put_lock1" -> "put_alloc"
      [] pc = "put_lock2" -> "put_commit"
      [] pc = "get_lock" -> "get_lookup"
      [] pc = "inv_lock" -> "inv_body"
      [] pc = "fm_lock" -> "fm_body"

\* A mutex that lets everybody in.
LockFreeAlways(l) == TRUE

LockFree(l) == l = NoThread

Lock(t) ==
    /\ UNCHANGED notCircularVars
    /\ th[t].pc \in {"put_lock1", "put_lock2", "get_lock", "inv_lock", "fm_lock"}
    /\ LockFree(ba.lock)
    /\ th[t].pc = "put_lock1" =>
           ba.stateStore.Write + GetSizeBytes(th[t].digest) <= MaxWrite
    /\ ba' = [ba EXCEPT !.lock = t]
    /\ th' = [th EXCEPT ![t].pc = NextPc(th[t].pc)]
    /\ UNCHANGED hist

\* ---------------------------------------------------- circularBlobAccess.Put
\* A Put that goes for the reader whether the size is known or not.
ConsumedByReader(sized) == "reader"

\* What Put does with its buffer first: b.Discard() if b.GetSizeBytes()
\* failed, r := b.ToReader() (with a deferred r.Close()) otherwise.
Consumed(sized) == IF sized THEN "reader" ELSE "discarded"

\* b.GetSizeBytes() fails (sized = FALSE): Discard and return the error.
\* Otherwise r := b.ToReader() and the goroutine goes for the lock.
PutBegin(t, d, sized) ==
    /\ UNCHANGED notCircularVars
    /\ th[t].pc = "idle"
    /\ th' = [th EXCEPT ![t] =
                 IF sized
                 THEN [Idle EXCEPT !.pc = "put_lock1", !.op = "put", !.digest = d,
                                   !.buffer = Consumed(sized)]
                 ELSE [Idle EXCEPT !.op = "put", !.res = "err_size",
                                   !.buffer = Consumed(sized)]]
    /\ UNCHANGED <<ba, hist>>

\* offset, err := ba.stateStore.Allocate(sizeBytes); ba.lock.Unlock()
PutAllocate(t, ok) ==
    /\ UNCHANGED notCircularVars
    /\ th[t].pc = "put_alloc"
    /\ ba.lock = t
    /\ IF ok
       THEN /\ ba' = [ba EXCEPT !.lock = NoThread,
                                !.stateStore = Allocate(@, GetSizeBytes(th[t].digest))]
            /\ th' = [Unfresh(th) EXCEPT ![t].pc = "put_write",
                                         ![t].offset = ba.stateStore.Write,
                                         ![t].n = 0]
       ELSE /\ ba' = [ba EXCEPT !.lock = NoThread]
            /\ th' = [Unfresh(th) EXCEPT ![t] = [Idle EXCEPT !.op = "put", !.res = "err_alloc",
                                                        !.buffer = "closed"]]
    /\ hist' = Disturb(hist)

\* The regions in use: those of the index and those of the Puts in flight.
Live(offsetStore, f) ==
    {offsetStore[d].offset : d \in {d \in Digests : offsetStore[d].ok}}
    \cup {f[u].offset : u \in {u \in Threads :
              f[u].pc \in {"put_write", "put_lock2", "put_commit"}}}

\* Regions, other than the writer's own, that already hold data in cell k.
Written(t, k) ==
    {th[u].offset : u \in {u \in Threads \ {t} :
        /\ th[u].op = "put"
        /\ th[u].pc \in {"put_write", "put_lock2", "put_commit"}
        /\ k \in Cells(th[u].offset, th[u].n)}}
    \cup
    {ba.offsetStore[d].offset : d \in {d \in Digests :
        /\ ba.offsetStore[d].ok
        /\ ba.offsetStore[d].offset # th[t].offset
        /\ k \in Cells(ba.offsetStore[d].offset, ba.offsetStore[d].length)}}

\* ba.dataStore.Put(r, offset), one byte per step, without the lock.  The
\* reader may fail at any point (ok = FALSE), also at its end of stream.
PutWrite(t, ok) ==
    /\ UNCHANGED notCircularVars
    /\ th[t].pc = "put_write"
    /\ LET d == th[t].digest
           n == th[t].n
           k == Cell(th[t].offset + n)
       IN  IF n < GetSizeBytes(d) /\ ok
           THEN /\ ba' = [ba EXCEPT !.dataStore[k] = Content(d)[n + 1]]
                /\ th' = [Clobber(th, t, k) EXCEPT ![t].n = n + 1]
                /\ hist' = [hist EXCEPT !.clobbered = @ \cup Written(t, k)]
           ELSE IF n < GetSizeBytes(d) \/ ~ok
           THEN /\ th' = [th EXCEPT ![t] = [Idle EXCEPT !.op = "put", !.res = "err_write",
                                                          !.buffer = "closed"]]
                /\ hist' = [hist EXCEPT !.clobbered = @ \cap Live(ba.offsetStore, th')]
                /\ UNCHANGED ba
           ELSE /\ th' = [th EXCEPT ![t].pc = "put_lock2"]
                /\ UNCHANGED <<ba, hist>>

\* A re-check that forgets the read cursor.
StillValidWriteOnly(cursors, offset, sizeBytes) == offset + sizeBytes <= cursors.Write

\* The re-check of the allocated region against the cursors read under the lock.
StillValid(cursors, offset, sizeBytes) == Contains(cursors, offset, sizeBytes)

\* cursors := GetCursors(); if cursors.Contains(offset, sizeBytes) then
\* offsetStore.Put(...) else "Data became stale before write completed".
PutCommit(t) ==
    /\ UNCHANGED notCircularVars
    /\ th[t].pc = "put_commit"
    /\ ba.lock = t
    /\ LET d == th[t].digest
           offset == th[t].offset
           sizeBytes == GetSizeBytes(d)
           cursors == GetCursors(ba.stateStore)
       IN  IF StillValid(cursors, offset, sizeBytes)
           THEN /\ ba' = [ba EXCEPT !.lock = NoThread,
                                    !.offsetStore = OffsetStorePut(@, d, offset, sizeBytes, cursors)]
                /\ th' = [th EXCEPT ![t] =
                       [Idle EXCEPT !.op = "put", !.digest = d, !.res = "ok",
                                    !.buffer = "closed"]]
                /\ hist' = [hist EXCEPT
                       !.quiet[d] = TRUE,
                       !.clobbered = @ \cap Live(ba'.offsetStore, th')]
           ELSE /\ ba' = [ba EXCEPT !.lock = NoThread]
                /\ th' = [th EXCEPT ![t] =
                       [Idle EXCEPT !.op = "put", !.digest = d, !.offset = offset,
                                    !.res = "stale", !.buffer = "closed"]]
                /\ hist' = [hist EXCEPT !.clobbered = @ \cap Live(ba.offsetStore, th')]

\* ---------------------------------------------------- circularBlobAccess.Get
GetBegin(t, d) ==
    /\ UNCHANGED notCircularVars
    /\ th[t].pc = "idle"
    /\ th' = [th EXCEPT ![t] = [Idle EXCEPT !.pc = "get_lock", !.op = "get", !.digest = d]]
    /\ UNCHANGED <<ba, hist>>

\* A lookup judged against cursors that never advanced their read side.
LookupCursorsNoRead(stateStore) == [Read |-> 0, Write |-> stateStore.Write]

\* The cursors the lookup is judged against: those read under the lock.
LookupCursors(stateStore) == GetCursors(stateStore)

\* A reader opened at the start of the ring instead of the entry's offset.
GetRegionAtZero(e) == [offset |-> 0, length |-> e.length]

\* The region the lazy reader of Get covers: dataStore.Get(offset, length).
GetRegion(e) == [offset |-> e.offset, length |-> e.length]

\* Whether the entry found was committed with no Allocate or Invalidate since
\* ("quiet"), and with no foreign data write into its cells either ("intact").
Freshness(h, d, e) ==
    IF ~h.quiet[d] THEN "no"
    ELSE IF e.ok /\ e.offset \in h.clobbered THEN "quiet"
    ELSE "intact"

\* cursors := GetCursors(); offset, length, ok, err := offsetStore.Get(digest, cursors);
\* Unlock.  An error or a miss ends Get; a hit hands out the lazy reader
\* dataStore.Get(offset, length).
GetLookup(t, ok) ==
    /\ UNCHANGED notCircularVars
    /\ th[t].pc = "get_lookup"
    /\ ba.lock = t
    /\ LET d == th[t].digest
           cursors == LookupCursors(ba.stateStore)
           e == OffsetStoreGet(ba.offsetStore, d, cursors)
       IN  th' = [th EXCEPT ![t] =
                 IF ~ok THEN [Idle EXCEPT !.op = "get", !.res = "err_index"]
                 ELSE IF e.ok
                 THEN [@ EXCEPT !.pc = "get_read", !.offset = GetRegion(e).offset,
                                !.n = 0, !.buf = <<>>, !.fresh = Freshness(hist, d, e)]
                 ELSE [@ EXCEPT !.pc = "idle", !.res = "notfound",
                                !.fresh = Freshness(hist, d, e)]]
    /\ ba' = [ba EXCEPT !.lock = NoThread]
    /\ UNCHANGED hist

\* The validation of the buffer the read buffer factory builds: the bytes read
\* are those of the blob the digest names.
DataIsValid(d, bytes) == bytes = Content(d)

\* A callback that invalidates whatever it is told.
RunsInvalidateAlways(dataIsValid) == TRUE

\* The callback of Get: if !dataIsValid { Lock; Invalidate; ... }
RunsInvalidate(dataIsValid) == ~dataIsValid

\* The reader is drained one byte per step, without the lock.  At its end the
\* buffer validates what was read: valid data is handed to the caller, invalid
\* data yields an integrity error and runs the callback of Get.
GetRead(t) ==
    /\ UNCHANGED notCircularVars
    /\ th[t].pc = "get_read"
    /\ LET d == th[t].digest
           n == th[t].n
           bytes == Append(th[t].buf, DataStoreGet(ba.dataStore, th[t].offset, n + 1))
       IN  th' = [th EXCEPT ![t] =
                 IF n + 1 < GetSizeBytes(d)
                 THEN [@ EXCEPT !.n = n + 1, !.buf = bytes]
                 ELSE LET dataIsValid == DataIsValid(d, bytes)
                      IN  [@ EXCEPT !.pc = IF RunsInvalidate(dataIsValid)
                                           THEN "inv_lock" ELSE "idle",
                                    !.n = 0,
                                    !.buf = IF dataIsValid THEN bytes ELSE <<>>,
                                    !.res = IF dataIsValid THEN "data" ELSE "integrity"]]
    /\ UNCHANGED <<ba, hist>>

\* The callback of Get for dataIsValid = false: Lock; stateStore.Invalidate(offset,
\* length); the outcome is only logged; Unlock.
InvalidateBody(t, ok) ==
    /\ UNCHANGED notCircularVars
    /\ th[t].pc = "inv_body"
    /\ ba.lock = t
    /\ ba' = [ba EXCEPT !.lock = NoThread,
                        !.stateStore = IF ok
                            THEN Invalidate(@, th[t].offset, GetSizeBytes(th[t].digest))
                            ELSE @]
    /\ th' = [Unfresh(th) EXCEPT ![t] =
                 [Idle EXCEPT !.op = "get", !.digest = th[t].digest, !.res = th[t].res]]
    /\ hist' = Disturb(hist)

\* -------------------------------------------- circularBlobAccess.FindMissing
FindMissingBegin(t, S) ==
    /\ UNCHANGED notCircularVars
    /\ th[t].pc = "idle"
    /\ th' = [th EXCEPT ![t] = [Idle EXCEPT !.pc = "fm_lock", !.op = "fm", !.digests = S]]
    /\ UNCHANGED <<ba, hist>>

\* A membership test that ignores the cursors.
MissingInAnyEntry(offsetStore, cursors, S) == {d \in S : ~offsetStore[d].ok}

\* The digests of the request that have no entry valid for the cursors given.
MissingIn(offsetStore, cursors, S) ==
    {d \in S : ~OffsetStoreGet(offsetStore, d, cursors).ok}

\* The whole body runs under the lock: the cursors are read once, every digest
\* is looked up against them in the order of digests.Items(); a failing lookup
\* (at digest failAt) ends the call with the empty set and the error.
FindMissingBody(t, failAt) ==
    /\ UNCHANGED notCircularVars
    /\ th[t].pc = "fm_body"
    /\ ba.lock = t
    /\ failAt \in th[t].digests \cup {0}
    /\ LET S == th[t].digests
           cursors == GetCursors(ba.stateStore)
       IN  th' = [th EXCEPT ![t] =
                 IF failAt = 0
                 THEN [@ EXCEPT !.pc = "idle", !.res = "ok", !.calls = S,
                                !.missing = MissingIn(ba.offsetStore, cursors, S)]
                 ELSE [@ EXCEPT !.pc = "idle", !.res = "err_index",
                                !.calls = {d \in S : d <= failAt}, !.missing = {}]]
    /\ ba' = [ba EXCEPT !.lock = NoThread]
    /\ UNCHANGED hist

\* ------------------------ contentAddressableStorageBlobAccess.FindMissing
\* A digest of the remote backend is <<instance name, digest>>.
Instances == {"", "i"}
RemoteDigests == Instances \X Digests

\* A partition that always holds the default instance.
PerInstanceDigestsWithDefault(S) ==
    [i \in {x[1] : x \in S} \cup {""} |-> {x[2] : x \in {y \in S : y[1] = i}}]

\* perInstanceDigests: the requested digests, partitioned by instance name.
PerInstanceDigests(S) ==
    [i \in {x[1] : x \in S} |-> {x[2] : x \in {y \in S : y[1] = i}}]

\* One FindMissingBlobs call per instance of the partition.  reply gives, per
\* instance, the digests the service reports missing; failAt is the instance
\* whose call fails ("-": none), before is the set of instances called before it.
RemoteFindMissing(t, S, reply, failAt, before) ==
    /\ UNCHANGED notCircularVars
    /\ th[t].pc = "idle"
    /\ LET per == PerInstanceDigests(S)
       IN  /\ th' = [th EXCEPT ![t] =
                 IF failAt = "-"
                 THEN [Idle EXCEPT !.op = "rfm", !.digests = S, !.res = "ok",
                          !.calls = {[InstanceName |-> i, BlobDigests |-> per[i]] : i \in DOMAIN per},
                          !.missing = UNION {{<<i, d>> : d \in reply[i]} : i \in DOMAIN per}]
                 ELSE [Idle EXCEPT !.op = "rfm", !.digests = S, !.res = "err_rpc",
                          !.calls = {[InstanceName |-> i, BlobDigests |-> per[i]] :
                                        i \in before \cup {failAt}},
                          !.missing = {}]]
    /\ UNCHANGED <<ba, hist>>

\* The digest sets the callers of the model ask about.
Requests == SUBSET Digests
RemoteRequests == {S \in SUBSET RemoteDigests : Cardinality(S) <= 2}
Replies(S) == {r \in [DOMAIN PerInstanceDigests(S) -> SUBSET Digests] :
                  \A i \in DOMAIN r : r[i] \subseteq PerInstanceDigests(S)[i]}
\* Request, replies of the service, failing call ("-": none), calls made before it.
RemoteInputs ==
    {<<S, reply, failAt, before>> :
        S \in RemoteRequests, reply \in UNION {Replies(S) : S \in RemoteRequests},
        failAt \in Instances \cup {"-"}, before \in SUBSET Instances}
RemoteCalls ==
    {x \in RemoteInputs :
        /\ x[2] \in Replies(x[1])
        /\ x[3] \in DOMAIN x[2] \cup {"-"}
        /\ x[4] \subseteq DOMAIN x[2] \ {x[3]}
        /\ x[3] = "-" => x[4] = DOMAIN x[2]
        /\ x[3] # "-" => x[2] = [i \in DOMAIN x[2] |-> {}]}
\* The requests the clients of the circular backend send to the remote one.
FewRemoteCalls == {x \in RemoteCalls : x[1] \subseteq {<<"i", 1>>}}

CircularNext ==
    \E t \in Threads :
        \/ Lock(t)
        \/ \E d \in Digests, sized \in BOOLEAN : PutBegin(t, d, sized)
        \/ \E ok \in BOOLEAN : PutAllocate(t, ok)
        \/ \E ok \in BOOLEAN : PutWrite(t, ok)
        \/ PutCommit(t)
        \/ \E d \in Digests : GetBegin(t, d)
        \/ \E ok \in BOOLEAN : GetLookup(t, ok)
        \/ GetRead(t)
        \/ \E ok \in BOOLEAN : InvalidateBody(t, ok)
        \/ \E S \in Requests : FindMissingBegin(t, S)
        \/ \E failAt \in Digests \cup {0} : FindMissingBody(t, failAt)
        \/ \E x \in FewRemoteCalls : RemoteFindMissing(t, x[1], x[2], x[3], x[4])

\* ===================================================== the cloned buffer
\* The chunks of the base buffer's chunk reader.
Chunks == <<"aa", "bb", "cc">>
EndOfStream == Len(Chunks) + 1

\* One slot per toChunkReader call: one per handle, and one more for a call
\* made on a handle that was already consumed.
Calls == 1..(MaxClones + 2)
NoCall == [pc |-> "unused", needsValidation |-> FALSE, discard |-> FALSE,
           chan |-> 0, sends |-> 0, round |-> 0, got |-> <<>>]
\* The zero value of the mutex: nobody holds it.
NoHolder == 0

\* newCASClonedBuffer: consumersRemaining is 1, nothing else is set.
CloneInit ==
    /\ b = [lock |-> NoHolder, consumersRemaining |-> 1, consumersWaiting |-> <<>>,
            needsValidation |-> FALSE]
    /\ cs = [c \in Calls |-> NoCall]
    /\ mux = [conversions |-> 0, validated |-> FALSE, consumers |-> 0,
              pos |-> 0, taken |-> 0, closed |-> 0]
    /\ env = [handles |-> 1, spent |-> 0, clones |-> 0, tainted |-> FALSE,
              panicked |-> FALSE,
              last |-> [kind |-> "none", violation |-> FALSE, remaining |-> 1]]

\* The operations of the Buffer interface that end in toChunkReader, and the
\* two readers the package keeps to itself.
TerminalOps == {"IntoWriter", "ReadAt", "ToActionResult", "ToByteSlice",
                "ToChunkReader", "ToReader", "CloneCopy", "Discard"}
UnvalidatedOps == {"toUnvalidatedChunkReader", "toUnvalidatedReader"}

\* Every operation asks for validation.
NeedsValidationOfAll(op) == TRUE

\* The needsValidation an operation passes to toChunkReader: ToActionResult
\* and CloneCopy go through ToByteSlice.
NeedsValidationOf(op) ==
    CASE op \in {"IntoWriter", "ReadAt", "ToByteSlice", "ToChunkReader", "ToReader"} -> TRUE
      [] op \in {"ToActionResult", "CloneCopy"} -> TRUE
      [] op = "Discard" -> FALSE
      [] op \in UnvalidatedOps -> FALSE

\* The slot of the next toChunkReader call.
NextCall == Cardinality({c \in Calls : cs[c].pc # "unused"}) + 1

\* The caller's side of a call: on a handle it holds (legit), or on a handle
\* that was consumed before (a violation of the contract).
MayCall(violation) == IF violation THEN env.spent >= 1 ELSE env.handles >= 1

\* b.lock.Lock() at the head of toChunkReader: any terminal operation
\* (needsValidation = TRUE), toUnvalidatedChunkReader, or Discard
\* (needsValidation = FALSE, and the reader is closed at once).
ToChunkReaderLock(c, needsValidation, discard, violation) ==
    /\ UNCHANGED notCloneVars
    /\ ~env.panicked
    /\ c = NextCall /\ c \in Calls
    /\ MayCall(violation)
    /\ b.lock = NoHolder
    /\ b' = [b EXCEPT !.lock = c]
    /\ cs' = [cs EXCEPT ![c] = [NoCall EXCEPT !.pc = "body",
                                   !.needsValidation = needsValidation,
                                   !.discard = discard]]
    /\ env' = [env EXCEPT
                 !.handles = IF violation THEN @ ELSE @ - 1,
                 !.spent = IF violation THEN @ ELSE @ + 1,
                 !.tainted = @ \/ violation,
                 !.last = [kind |-> "terminal", violation |-> violation,
                           remaining |-> b.consumersRemaining]]
    /\ UNCHANGED mux

\* One consumer too few is handed to newMultiplexedChunkReader.
AdditionalConsumersShort(consumersWaiting) == Len(consumersWaiting) - 1

\* The number handed to newMultiplexedChunkReader.
AdditionalConsumers(consumersWaiting) == Len(consumersWaiting)

\* newMultiplexedChunkReader(r, n): the reader serves the n consumers named
\* and the one that built it.
NewMultiplexedChunkReader(m, validated, n) ==
    [m EXCEPT !.conversions = @ + 1, !.validated = validated, !.consumers = n + 1]

\* A check that an unsigned counter never meets.
FullyConsumedNever(consumersRemaining) == consumersRemaining < 0

\* Whether toChunkReader panics: the buffer is already fully consumed.
FullyConsumed(consumersRemaining) == consumersRemaining = 0

\* A toChunkReader that forgets b.lock.Unlock().
UnlockedNot(lock) == lock

\* The lock as toChunkReader leaves it before it returns or blocks.
Unlocked(lock) == NoHolder

\* The reader is built one declaration too early.
AllDeclaredEarly(consumersRemaining) == consumersRemaining <= 1

\* All consumers have supplied their constraints.
AllDeclared(consumersRemaining) == consumersRemaining = 0

\* CloneStream counts both handles it returns.
OneMoreConsumerTwice(consumersRemaining) == consumersRemaining + 2

\* b.consumersRemaining++ of CloneStream.
OneMoreConsumer(consumersRemaining) == consumersRemaining + 1

\* Only the consumer that declares last is listened to.
NeedsValidationOfLast(previous, needsValidation) == needsValidation

\* b.needsValidation = b.needsValidation || needsValidation
NeedsValidation(previous, needsValidation) == previous \/ needsValidation

\* The body of toChunkReader, run under the lock.
ToChunkReaderBody(c) ==
    /\ UNCHANGED notCloneVars
    /\ ~env.panicked
    /\ cs[c].pc = "body"
    /\ b.lock = c
    /\ IF FullyConsumed(b.consumersRemaining)
       THEN \* panic("... already fully consumed"), with the lock held
            /\ env' = [env EXCEPT !.panicked = TRUE]
            /\ cs' = [cs EXCEPT ![c].pc = "panicked"]
            /\ UNCHANGED <<b, mux>>
       ELSE LET remaining == b.consumersRemaining - 1
                validate == NeedsValidation(b.needsValidation, cs[c].needsValidation)
            IN  IF AllDeclared(remaining)
                THEN \* the last consumer: build the reader, hand it to the waiters
                     /\ mux' = NewMultiplexedChunkReader(mux, validate,
                                    AdditionalConsumers(b.consumersWaiting))
                     /\ cs' = [x \in Calls |->
                            IF x = c THEN [cs[x] EXCEPT !.pc = "reading"]
                            ELSE IF \E i \in 1..Len(b.consumersWaiting) :
                                        b.consumersWaiting[i] = x
                            THEN [cs[x] EXCEPT !.chan = @ + 1, !.sends = @ + 1]
                            ELSE cs[x]]
                     /\ b' = [b EXCEPT !.consumersRemaining = remaining,
                                       !.needsValidation = validate,
                                       !.lock = Unlocked(@)]
                     /\ UNCHANGED env
                ELSE \* c := make(chan ChunkReader, 1); append; Unlock; <-c
                     /\ b' = [b EXCEPT !.consumersRemaining = remaining,
                                       !.needsValidation = validate,
                                       !.consumersWaiting = Append(@, c),
                                       !.lock = Unlocked(@)]
                     /\ cs' = [cs EXCEPT ![c].pc = "recv"]
                     /\ UNCHANGED <<mux, env>>

\* <-c: the waiting consumer receives the multiplexed reader.
Recv(c) ==
    /\ UNCHANGED notCloneVars
    /\ ~env.panicked
    /\ cs[c].pc = "recv"
    /\ cs[c].chan > 0
    /\ cs' = [cs EXCEPT ![c].chan = @ - 1, ![c].pc = "reading"]
    /\ UNCHANGED <<b, mux, env>>

\* The multiplexed reader pulls the next chunk (or the end of the stream) from
\* the source once every consumer it serves has taken the current one or has
\* closed its reader.
MuxPull ==
    /\ UNCHANGED notCloneVars
    /\ ~env.panicked
    /\ mux.conversions > 0
    /\ mux.pos < EndOfStream
    /\ mux.pos = 0 \/ mux.taken + mux.closed >= mux.consumers
    /\ mux' = [mux EXCEPT !.pos = @ + 1, !.taken = 0]
    /\ UNCHANGED <<b, cs, env>>

\* Read() of a consumer: it is given the chunk the source stands at, once.
Read(c) ==
    /\ UNCHANGED notCloneVars
    /\ ~env.panicked
    /\ cs[c].pc = "reading"
    /\ ~cs[c].discard
    /\ cs[c].round < mux.pos
    /\ cs' = [cs EXCEPT ![c].round = mux.pos,
                        ![c].got = IF mux.pos = EndOfStream THEN @
                                   ELSE Append(@, Chunks[mux.pos]),
                        ![c].pc = IF mux.pos = EndOfStream THEN "eof" ELSE "reading"]
    /\ mux' = [mux EXCEPT !.taken = @ + 1]
    /\ UNCHANGED <<b, env>>

\* Discard: the reader obtained is closed at once.
Close(c) ==
    /\ UNCHANGED notCloneVars
    /\ ~env.panicked
    /\ cs[c].pc = "reading"
    /\ cs[c].discard
    /\ cs' = [cs EXCEPT ![c].pc = "closed"]
    /\ mux' = [mux EXCEPT !.closed = @ + 1,
                          !.taken = IF cs[c].round = mux.pos /\ mux.pos > 0
                                    THEN @ - 1 ELSE @]
    /\ UNCHANGED <<b, env>>

\* casClonedBuffer.CloneStream: under the lock, panic if the buffer is fully
\* consumed, else one more consumer; the caller gives one handle for two.
CloneStream(violation) ==
    /\ UNCHANGED notCloneVars
    /\ ~env.panicked
    /\ env.clones < MaxClones
    /\ MayCall(violation)
    /\ b.lock = NoHolder
    /\ IF FullyConsumed(b.consumersRemaining)
       THEN /\ env' = [env EXCEPT !.panicked = TRUE, !.tainted = @ \/ violation,
                          !.last = [kind |-> "clone", violation |-> violation,
                                    remaining |-> b.consumersRemaining]]
            /\ UNCHANGED b
       ELSE /\ b' = [b EXCEPT !.consumersRemaining = OneMoreConsumer(@)]
            /\ env' = [env EXCEPT !.clones = @ + 1,
                          !.handles = IF violation THEN @ + 2 ELSE @ + 1,
                          !.tainted = @ \/ violation,
                          !.last = [kind |-> "clone", violation |-> violation,
                                    remaining |-> b.consumersRemaining]]
    /\ UNCHANGED <<cs, mux>>

\* Calls made within the contract.
CloneNextLegit ==
    \/ \E c \in Calls, op \in TerminalOps \cup UnvalidatedOps :
          ToChunkReaderLock(c, NeedsValidationOf(op), op = "Discard", FALSE)
    \/ \E c \in Calls : ToChunkReaderBody(c)
    \/ \E c \in Calls : Recv(c)
    \/ MuxPull
    \/ \E c \in Calls : Read(c)
    \/ \E c \in Calls : Close(c)
    \/ CloneStream(FALSE)

\* Calls made on a handle that was consumed before.
CloneNextViolation ==
    \/ \E c \in Calls, op \in TerminalOps \cup UnvalidatedOps :
          ToChunkReaderLock(c, NeedsValidationOf(op), op = "Discard", TRUE)
    \/ CloneStream(TRUE)

\* ====================================================== the error buffer
Errors == {"unavailable", "internal", "integrity"}
NoError == "nil"

\* A buffer handed to the caller: an errorBuffer{err}, or the replacement
\* buffer an ErrorHandler came up with.
ErrorBuffer(err) == [kind |-> "error", err |-> err]
Replacement == [kind |-> "replacement", err |-> NoError]
NoErrorCall == [op |-> "none", on |-> NoError, err |-> NoError, bufs |-> <<>>,
                retry |-> FALSE, answer |-> <<>>, onError |-> <<>>, done |-> 0]

ErrorInit == eb = [handles |-> <<>>, last |-> NoErrorCall]

\* NewBufferFromError(err)
NewBufferFromError(err) ==
    /\ UNCHANGED notErrorVars
    /\ eb.handles = <<>> /\ eb.last.op = "none"
    /\ eb' = [eb EXCEPT !.handles = <<ErrorBuffer(err)>>]

\* newErrorChunkReader(err), newErrorReader(err): a reader whose Read fails
\* with err.
NewErrorChunkReader(err) == [err |-> err]
ErrorChunkReaderRead(r) == r.err

\* A conversion that reports success.
ErrorConversionNil(buf, op) == NoError

Conversions == {"GetSizeBytes", "IntoWriter", "ReadAt", "ToActionResult", "ToByteSlice"}
Readers == {"ToChunkReader", "ToReader", "toUnvalidatedChunkReader", "toUnvalidatedReader"}

\* The error a conversion of an errorBuffer returns; for the readers, the
\* error of the first Read.
ErrorConversion(buf, op) ==
    IF op \in Conversions THEN buf.err
    ELSE ErrorChunkReaderRead(NewErrorChunkReader(buf.err))

\* GetSizeBytes, IntoWriter, ReadAt, ToActionResult, ToByteSlice, ToChunkReader,
\* ToReader and the unvalidated readers, on the buffer in hand i.
ErrorConvert(i, op) ==
    /\ UNCHANGED notErrorVars
    /\ i \in DOMAIN eb.handles
    /\ eb' = [eb EXCEPT !.last = [NoErrorCall EXCEPT !.op = op,
                                     !.on = eb.handles[i].err,
                                     !.err = ErrorConversion(eb.handles[i], op)]]

\* CloneCopy, CloneStream: return b, b.  The caller gives one buffer for two.
ErrorClone(i, op) ==
    /\ UNCHANGED notErrorVars
    /\ i \in DOMAIN eb.handles
    /\ Len(eb.handles) < MaxErrorBuffers
    /\ LET buf == eb.handles[i]
       IN  eb' = [eb EXCEPT !.handles = Append(@, buf),
                            !.last = [NoErrorCall EXCEPT !.op = op, !.on = buf.err,
                                                         !.bufs = <<buf, buf>>]]

\* Discard: nothing happens.  The caller lets go of the buffer.
ErrorDiscard(i) ==
    /\ UNCHANGED notErrorVars
    /\ i \in DOMAIN eb.handles
    /\ eb' = [eb EXCEPT
                 !.handles = SubSeq(@, 1, i - 1) \o SubSeq(@, i + 1, Len(@)),
                 !.last = [NoErrorCall EXCEPT !.op = "Discard",
                                              !.on = eb.handles[i].err]]

\* An applyErrorHandler that calls Done on every path.
ApplyErrorHandlerDoneAlways(buf, newB, transformedErr) ==
    IF transformedErr # NoError
    THEN [bufs |-> <<ErrorBuffer(transformedErr)>>, retry |-> FALSE,
          onError |-> <<buf.err>>, done |-> 1]
    ELSE [bufs |-> <<newB>>, retry |-> TRUE, onError |-> <<buf.err>>, done |-> 1]

\* errorBuffer.applyErrorHandler: newB, transformedErr := OnError(b.err); with
\* a translated error Done() is called and an error buffer carrying it is
\* returned with false, otherwise newB is returned with true.
ApplyErrorHandler(buf, newB, transformedErr) ==
    IF transformedErr # NoError
    THEN [bufs |-> <<ErrorBuffer(transformedErr)>>, retry |-> FALSE,
          onError |-> <<buf.err>>, done |-> 1]
    ELSE [bufs |-> <<newB>>, retry |-> TRUE, onError |-> <<buf.err>>, done |-> 0]

\* applyErrorHandler on the buffer in hand i, with a policy that answers
\* (newB, transformedErr).  The caller continues with the buffer returned.
ErrorApplyErrorHandler(i, newB, transformedErr) ==
    /\ UNCHANGED notErrorVars
    /\ i \in DOMAIN eb.handles
    /\ LET buf == eb.handles[i]
           r == ApplyErrorHandler(buf, newB, transformedErr)
       IN  eb' = [eb EXCEPT
                    !.handles = IF r.bufs[1].kind = "error"
                                THEN [@ EXCEPT ![i] = r.bufs[1]]
                                ELSE SubSeq(@, 1, i - 1) \o SubSeq(@, i + 1, Len(@)),
                    !.last = [op |-> "applyErrorHandler", on |-> buf.err,
                              err |-> NoError, bufs |-> r.bufs, retry |-> r.retry,
                              answer |-> <<newB, transformedErr>>,
                              onError |-> r.onError, done |-> r.done]]

\* What a policy answers: a replacement buffer (an error buffer is one too)
\* and no error, or a translated error.
PolicyAnswers ==
    {<<newB, NoError>> : newB \in {Replacement} \cup {ErrorBuffer(e) : e \in Errors}}
    \cup {<<Replacement, e>> : e \in Errors}

ErrorNext ==
    \/ \E err \in Errors : NewBufferFromError(err)
    \/ \E i \in 1..MaxErrorBuffers, op \in Conversions \cup Readers : ErrorConvert(i, op)
    \/ \E i \in 1..MaxErrorBuffers, op \in {"CloneCopy", "CloneStream"} : ErrorClone(i, op)
    \/ \E i \in 1..MaxErrorBuffers : ErrorDiscard(i)
    \/ \E i \in 1..MaxErrorBuffers, a \in PolicyAnswers :
          ErrorApplyErrorHandler(i, a[1], a[2])

\* ============================================== the error handling buffer
\* The blob the digest names, and a blob of the same size that does not match it.
Blob == <<"a", "b", "c">>
Corrupt == <<"a", "x", "c">>
Min(x, y) == IF x <= y THEN x ELSE y

\* A base or replacement buffer: the bytes behind it, the size of the chunks
\* its reader yields, and whether (and after how many bytes) its transport
\* fails.
Sources ==
    {src \in [data : {Blob, Corrupt}, chunk : {1, 2}, fails : BOOLEAN,
              at : 0..Len(Blob)] : ~src.fails => src.at = 0}
NoSource == [data |-> <<>>, chunk |-> 1, fails |-> FALSE, at |-> 0]
NoResult == [err |-> "none", data |-> <<>>]

RetryInit ==
    eh = [pc |-> "none", op |-> "none", base |-> NoSource, cur |-> NoSource,
          arg |-> 0, attempts |-> <<>>, answers |-> <<>>, onError |-> <<>>,
          done |-> 0, off |-> 0, rpos |-> 0, delivered |-> <<>>, from |-> <<>>,
          res |-> NoResult, baseDiscards |-> 0]

\* newCASErrorHandlingBuffer(base, errorHandler, digest, repairStrategy)
NewCASErrorHandlingBuffer(src) ==
    /\ UNCHANGED notRetryVars
    /\ eh.pc = "none"
    /\ eh' = [eh EXCEPT !.pc = "ready", !.base = src]

\* ToByteSlice, ToActionResult or ReadAt(p, off) of a buffer that validates
\* what it read before it returns it.  ReadAt fills a p of two bytes and
\* reports io.EOF when the blob ends before p is full.
BaseCall(src, op, off) ==
    IF src.fails THEN [err |-> "unavailable", data |-> <<>>]
    ELSE IF src.data # Blob THEN [err |-> "integrity", data |-> <<>>]
    ELSE IF op # "ReadAt" THEN [err |-> NoError, data |-> src.data]
    ELSE [err |-> IF off + 2 > Len(src.data) THEN "eof" ELSE NoError,
          data |-> SubSeq(src.data, off + 1, Min(off + 2, Len(src.data)))]

\* A path that forgets to release the retry session.
ErrorHandlerDoneForgotten(done) == done

\* b.errorHandler.Done()
ErrorHandlerDone(done) == done + 1

WholeOps == {"ToByteSlice", "ToActionResult", "ReadAt"}
StreamOps == {"IntoWriter", "ToChunkReader", "ToReader"}

\* ToByteSlice, ToActionResult, ReadAt: tryRepeatedly(f) starts with base := b.base.
WholeBegin(op, off) ==
    /\ UNCHANGED notRetryVars
    /\ eh.pc = "ready"
    /\ op \in WholeOps
    /\ off # 0 => op = "ReadAt"
    /\ eh' = [eh EXCEPT !.pc = "attempt", !.op = op, !.arg = off, !.cur = eh.base]

\* tryRepeatedly gives up after an io.EOF as well.
ReturnedOnlyIfNil(originalErr) == originalErr = NoError

\* originalErr == nil || originalErr == io.EOF: the attempt is returned as it is.
Returned(originalErr) == originalErr \in {NoError, "eof"}

\* originalErr := f(base).  A nil or io.EOF outcome is returned, and the
\* deferred Done() runs; any other error goes to the error handler.
WholeAttempt ==
    /\ UNCHANGED notRetryVars
    /\ eh.pc = "attempt"
    /\ LET r == BaseCall(eh.cur, eh.op, eh.arg)
           log == Append(eh.attempts, [src |-> eh.cur, err |-> r.err])
       IN  IF Returned(r.err)
           THEN eh' = [eh EXCEPT !.pc = "done", !.attempts = log, !.res = r,
                                 !.done = ErrorHandlerDone(@)]
           ELSE eh' = [eh EXCEPT !.pc = "onerror", !.attempts = log]

\* The retry goes to the buffer that has just failed.
NextBaseSame(base, newB) == base

\* base, translatedErr = b.errorHandler.OnError(originalErr): the loop goes on
\* with the buffer the handler returned.
NextBase(base, newB) == newB

\* The error handler answers the error of the last attempt: a translated error
\* is returned (and the deferred Done() runs), a replacement is tried next.
WholeOnError(newB, translatedErr) ==
    /\ UNCHANGED notRetryVars
    /\ eh.pc = "onerror"
    /\ translatedErr = NoError => Len(eh.answers) < MaxRetries
    /\ LET originalErr == eh.attempts[Len(eh.attempts)].err
           told == [eh EXCEPT !.onError = Append(@, originalErr),
                              !.answers = Append(@, <<newB, translatedErr>>)]
       IN  IF translatedErr # NoError
           THEN eh' = [told EXCEPT !.pc = "done", !.done = ErrorHandlerDone(@),
                                   !.res = [err |-> translatedErr, data |-> <<>>]]
           ELSE eh' = [told EXCEPT !.pc = "attempt", !.cur = NextBase(eh.cur, newB)]

\* IntoWriter, ToChunkReader(0, ...), ToReader: a validating reader on top of
\* newErrorHandlingChunkReader(b.base, b.errorHandler, 0, ...), which opens
\* the unvalidated reader of the base.
StreamBegin(op) ==
    /\ UNCHANGED notRetryVars
    /\ eh.pc = "ready"
    /\ op \in StreamOps
    /\ eh' = [eh EXCEPT !.pc = "stream", !.op = op, !.cur = eh.base]

\* Where the transport of src stops, for a reader opened at or before pos.
Limit(src, pos) == IF src.fails /\ src.at >= pos THEN src.at ELSE Len(src.data)

\* The reader under the retrying one validates: base.ToChunkReader.
ValidatedRead(src, pos) ==
    IF pos < Limit(src, pos)
    THEN [err |-> NoError,
          data |-> SubSeq(src.data, pos + 1, Min(pos + src.chunk, Limit(src, pos)))]
    ELSE IF src.fails /\ src.at >= pos THEN [err |-> "unavailable", data |-> <<>>]
    ELSE IF src.data # Blob THEN [err |-> "integrity", data |-> <<>>]
    ELSE [err |-> "eof", data |-> <<>>]

\* Read() of base.toUnvalidatedChunkReader at position pos: the next chunk,
\* the transport error, or io.EOF.
UnvalidatedRead(src, pos) ==
    IF pos < Limit(src, pos)
    THEN [err |-> NoError,
          data |-> SubSeq(src.data, pos + 1, Min(pos + src.chunk, Limit(src, pos)))]
    ELSE IF src.fails /\ src.at >= pos THEN [err |-> "unavailable", data |-> <<>>]
    ELSE [err |-> "eof", data |-> <<>>]

\* The validating reader at the end of the stream: the bytes that went through
\* it are those of the digest, or the stream ends in an integrity error.
Validate(bytes) == IF bytes = Blob THEN NoError ELSE "integrity"

\* Read() of the chain.  A chunk is passed downstream and counted; at io.EOF
\* the validating reader gives its verdict and the reader is closed (Done());
\* an error of the transport goes to the error handler.
StreamRead ==
    /\ UNCHANGED notRetryVars
    /\ eh.pc = "stream"
    /\ LET r == UnvalidatedRead(eh.cur, eh.rpos)
           n == Len(r.data)
       IN  IF r.err = NoError
           THEN eh' = [eh EXCEPT !.delivered = @ \o r.data,
                                 !.from = @ \o [i \in 1..n |-> eh.rpos + i],
                                 !.off = @ + n, !.rpos = @ + n]
           ELSE IF r.err = "eof"
           THEN eh' = [eh EXCEPT !.pc = "done", !.done = @ + 1,
                                 !.res = [err |-> Validate(eh.delivered),
                                          data |-> eh.delivered]]
           ELSE eh' = [eh EXCEPT !.pc = "stream_onerror",
                                 !.attempts = Append(@, [src |-> eh.cur, err |-> r.err])]

\* The replacement is read from its first byte again.
ReopenAtStart(off) == 0

\* The replacement is opened at the offset of the bytes passed on so far.
ReopenOffset(off) == off

\* The error handler answers a failed Read: a translated error ends the stream
\* with it, a replacement is opened with toUnvalidatedChunkReader(off).
StreamOnError(newB, translatedErr) ==
    /\ UNCHANGED notRetryVars
    /\ eh.pc = "stream_onerror"
    /\ translatedErr = NoError => Len(eh.answers) < MaxRetries
    /\ LET originalErr == eh.attempts[Len(eh.attempts)].err
           told == [eh EXCEPT !.onError = Append(@, originalErr),
                              !.answers = Append(@, <<newB, translatedErr>>)]
       IN  IF translatedErr # NoError
           THEN eh' = [told EXCEPT !.pc = "done", !.done = @ + 1,
                                   !.res = [err |-> translatedErr, data |-> eh.delivered]]
           ELSE eh' = [told EXCEPT !.pc = "stream", !.cur = newB,
                                   !.rpos = ReopenOffset(eh.off)]

\* Discard: b.errorHandler.Done(); b.base.Discard()
RetryDiscard ==
    /\ UNCHANGED notRetryVars
    /\ eh.pc = "ready"
    /\ eh' = [eh EXCEPT !.pc = "done", !.op = "Discard",
                        !.done = ErrorHandlerDone(@), !.baseDiscards = @ + 1]

\* ToChunkReader(off, ...) with an offset validateReaderOffset rejects (one
\* beyond the size of the blob): b.Discard(), and a reader that fails with
\* the error is returned.
ToChunkReaderBeyond(off) ==
    /\ UNCHANGED notRetryVars
    /\ eh.pc = "ready"
    /\ off > Len(Blob)
    /\ eh' = [eh EXCEPT !.pc = "done", !.op = "ToChunkReaderBeyond", !.arg = off,
                        !.done = ErrorHandlerDone(@), !.baseDiscards = @ + 1,
                        !.res = [err |-> "invalid_offset", data |-> <<>>]]

\* What an error handler answers: a replacement buffer, or a translated error.
RetryAnswers ==
    {<<src, NoError>> : src \in Sources}
    \cup {<<NoSource, e>> : e \in {"internal", "unavailable"}}

RetryNext ==
    \/ \E src \in Sources : NewCASErrorHandlingBuffer(src)
    \/ \E op \in WholeOps, off \in {0, 2} : WholeBegin(op, off)
    \/ WholeAttempt
    \/ \E a \in RetryAnswers : WholeOnError(a[1], a[2])
    \/ \E op \in StreamOps : StreamBegin(op)
    \/ StreamRead
    \/ \E a \in RetryAnswers : StreamOnError(a[1], a[2])
    \/ RetryDiscard
    \/ \E off \in {Len(Blob) + 1} : ToChunkReaderBeyond(off)

\* ==================================== contentAddressableStorageBlobAccess
NoName == ""

\* The resource name of an upload: [instance/]uploads/<uuid>/blobs/<hash>/<size>.
UploadName(instance, uuid, sizeBytes) ==
    IF instance = ""
    THEN <<"uploads", uuid, "blobs", sizeBytes>>
    ELSE <<instance, "uploads", uuid, "blobs", sizeBytes>>

\* What the chunk reader of the buffer yields: the sizes of its chunks.
ChunkSizes == UNION {[1..n -> 1..2] : n \in 0..MaxChunks}

RECURSIVE Sum(_)
Sum(q) == IF q = <<>> THEN 0 ELSE q[1] + Sum(Tail(q))

\* Chunk k of the blob: byte i of the blob is i.
Chunk(sizes, k) ==
    [j \in 1..sizes[k] |-> Sum(SubSeq(sizes, 1, k - 1)) + j]

RemoteInit ==
    rm = [pc |-> "idle", op |-> "none", res |-> "none",
          instance |-> "", sizes |-> <<>>, failAfter |-> 0, fails |-> FALSE,
          read |-> 0, eof |-> FALSE, resourceName |-> NoName, writeOffset |-> 0,
          sent |-> <<>>, acks |-> 0,
          digests |-> {}, todo |-> {}, calls |-> <<>>, replies |-> <<>>,
          missing |-> {}]

\* Put: r := b.ToChunkReader(...); client, err := ba.byteStreamClient.Write(ctx).
\* The reader yields the chunks of sizes, and fails after failAfter of them if
\* fails is set.  With a client the resource name is built and the loop starts.
RemotePutBegin(instance, sizes, fails, failAfter, ok) ==
    /\ UNCHANGED notRemoteVars
    /\ rm.pc = "idle" /\ rm.op = "none"
    /\ failAfter \in 0..Len(sizes)
    /\ ~fails => failAfter = 0
    /\ rm' = IF ok
             THEN [rm EXCEPT !.pc = "loop", !.op = "put", !.instance = instance,
                             !.sizes = sizes, !.fails = fails, !.failAfter = failAfter,
                             !.resourceName = UploadName(instance, "uuid", Sum(sizes))]
             ELSE [rm EXCEPT !.op = "put", !.instance = instance, !.sizes = sizes,
                             !.res = "err_open"]

\* The name is sent with every message.
ResourceNameKept(resourceName) == resourceName

\* resourceName = "" after the first message was sent.
ResourceNameAfterSend(resourceName) == NoName

\* One turn of the loop: r.Read(), then client.Send of a data message, or of
\* the finish message at io.EOF; an error of the reader or of Send ends Put.
RemotePutLoop(sendOk) ==
    /\ UNCHANGED notRemoteVars
    /\ rm.pc = "loop"
    /\ IF rm.fails /\ rm.read = rm.failAfter
       THEN rm' = [rm EXCEPT !.pc = "idle", !.res = "err_read"]
       ELSE IF rm.read < Len(rm.sizes)
       THEN IF sendOk
            THEN rm' = [rm EXCEPT
                     !.read = @ + 1,
                     !.sent = Append(@, [ResourceName |-> rm.resourceName,
                                         WriteOffset |-> rm.writeOffset,
                                         Data |-> Chunk(rm.sizes, rm.read + 1),
                                         FinishWrite |-> FALSE]),
                     !.writeOffset = @ + rm.sizes[rm.read + 1],
                     !.resourceName = ResourceNameAfterSend(@)]
            ELSE rm' = [rm EXCEPT !.pc = "idle", !.read = @ + 1, !.res = "err_send"]
       ELSE IF sendOk
            THEN rm' = [rm EXCEPT
                     !.pc = "ack", !.eof = TRUE,
                     !.sent = Append(@, [ResourceName |-> rm.resourceName,
                                         WriteOffset |-> rm.writeOffset,
                                         Data |-> <<>>,
                                         FinishWrite |-> TRUE])]
            ELSE rm' = [rm EXCEPT !.pc = "idle", !.eof = TRUE, !.res = "err_send"]

\* _, err := client.CloseAndRecv(); return err
RemotePutAck(ok) ==
    /\ UNCHANGED notRemoteVars
    /\ rm.pc = "ack"
    /\ rm' = [rm EXCEPT !.pc = "idle", !.acks = @ + 1,
                        !.res = IF ok THEN "ok" ELSE "err_ack"]

\* FindMissing: the digests are partitioned by instance name; with no digest
\* the loop over the partition has nothing to do and the empty set is returned.
RemoteFindMissingBegin(S) ==
    /\ UNCHANGED notRemoteVars
    /\ rm.pc = "idle" /\ rm.op = "none"
    /\ LET perInstanceDigests == PerInstanceDigests(S)
       IN  rm' = [rm EXCEPT !.op = "fm", !.digests = S,
                            !.todo = DOMAIN perInstanceDigests,
                            !.pc = IF DOMAIN perInstanceDigests = {} THEN "idle" ELSE "calls",
                            !.res = IF DOMAIN perInstanceDigests = {} THEN "ok" ELSE "none"]

\* Every digest reported is put under the default instance.
UnderDefaultInstance(instanceName, partialDigest) == <<"", partialDigest>>

\* digest.NewDigestFromPartialDigest(instanceName, partialDigest)
NewDigestFromPartialDigest(instanceName, partialDigest) == <<instanceName, partialDigest>>

\* One turn of the loop over the partition, in the order the map yields its
\* keys: the FindMissingBlobs call for instanceName, and the conversion of its
\* reply.  A failing call, or a digest of the reply that cannot be converted,
\* ends FindMissing with the empty set and the error.
RemoteFindMissingCall(instanceName, reply, ok, wellFormed) ==
    /\ UNCHANGED notRemoteVars
    /\ rm.pc = "calls"
    /\ instanceName \in rm.todo
    /\ LET blobDigests == PerInstanceDigests(rm.digests)[instanceName]
           request == [InstanceName |-> instanceName, BlobDigests |-> blobDigests]
           called == [rm EXCEPT !.calls = Append(@, request),
                                !.todo = @ \ {instanceName}]
       IN  /\ reply \subseteq blobDigests
           /\ ~ok => reply = {} /\ wellFormed
           /\ ~wellFormed => reply # {}
           /\ IF ~ok
              THEN rm' = [called EXCEPT !.pc = "idle", !.res = "err_rpc", !.missing = {}]
              ELSE IF ~wellFormed
              THEN rm' = [called EXCEPT !.pc = "idle", !.res = "err_digest",
                                        !.missing = {},
                                        !.replies = Append(@, reply)]
              ELSE rm' = [called EXCEPT
                       !.replies = Append(@, reply),
                       !.missing = @ \cup {NewDigestFromPartialDigest(instanceName, d) :
                                              d \in reply},
                       !.pc = IF rm.todo = {instanceName} THEN "idle" ELSE "calls",
                       !.res = IF rm.todo = {instanceName} THEN "ok" ELSE "none"]

RemoteNext ==
    \/ \E instance \in Instances, sizes \in ChunkSizes, fails \in BOOLEAN,
          failAfter \in 0..MaxChunks, ok \in BOOLEAN :
          RemotePutBegin(instance, sizes, fails, failAfter, ok)
    \/ \E sendOk \in BOOLEAN : RemotePutLoop(sendOk)
    \/ \E ok \in BOOLEAN : RemotePutAck(ok)
    \/ \E S \in SUBSET RemoteDigests : RemoteFindMissingBegin(S)
    \/ \E instanceName \in Instances, reply \in SUBSET Digests,
          ok \in BOOLEAN, wellFormed \in BOOLEAN :
          RemoteFindMissingCall(instanceName, reply, ok, wellFormed)

vars == <<ba, th, hist, b, cs, mux, env, eb, eh, rm>>
Init == CircularInit /\ CloneInit /\ ErrorInit /\ RetryInit /\ RemoteInit
Next == CircularNext
Spec == Init /\ [][Next]_vars

CloneNext == CloneNextLegit \/ CloneNextViolation
SpecClone == Init /\ [][CloneNext]_vars
SpecError == Init /\ [][ErrorNext]_vars
SpecRetry == Init /\ [][RetryNext]_vars
SpecRemote == Init /\ [][RemoteNext]_vars

\* Every handle is eventually consumed or discarded by the thread that holds
\* it; a thread inside toChunkReader keeps running; a receive on a channel that
\* holds a value completes.
ConsumeHandle ==
    \E c \in Calls, op \in TerminalOps \cup UnvalidatedOps :
        ToChunkReaderLock(c, NeedsValidationOf(op), op = "Discard", FALSE)
SpecCloneFair ==
    /\ Init /\ [][CloneNextLegit]_vars
    /\ WF_vars(ConsumeHandle)
    /\ WF_vars(\E c \in Calls : ToChunkReaderBody(c))
    /\ WF_vars(\E c \in Calls : Recv(c))

\* As SpecCloneFair, and the readers handed out are used: a consumer that can
\* read does, a discarded reader is closed, the multiplexer pulls when it may.
SpecCloneDrain ==
    /\ SpecCloneFair
    /\ WF_vars(MuxPull)
    /\ WF_vars(\E c \in Calls : Read(c))
    /\ WF_vars(\E c \in Calls : Close(c))

\* ------------------------------------------------------------------- claims
\* Steps of the model, named for the action properties below.
CommitStep(t) == th[t].pc = "put_commit" /\ th'[t].pc = "idle"
LookupStep(t) == th[t].pc = "get_lookup" /\ th'[t].pc # "get_lookup"
FindMissingStep(t) == th[t].pc = "fm_body" /\ th'[t].pc = "idle"
Region(t) == [offset |-> th[t].offset, length |-> GetSizeBytes(th[t].digest), ok |-> TRUE]
InSpan(e) == e.ok /\ ba.stateStore.Read <= e.offset
                  /\ e.offset + e.length <= ba.stateStore.Write

\* C1, as a step: a Put whose region is no longer inside the cursors at the
\* re-check returns the stale-allocation error and leaves the index as it was;
\* the index changes only in a commit step whose region is inside the cursors
\* of that same critical section, and the new entry is that region.
C1_Recheck ==
    /\ \A t \in Threads : CommitStep(t) /\ ~InSpan(Region(t)) =>
           th'[t].res = "stale" /\ ba'.offsetStore = ba.offsetStore
    /\ ba'.offsetStore # ba.offsetStore =>
           \E t \in Threads :
               /\ CommitStep(t) /\ ba.lock = t /\ InSpan(Region(t))
               /\ th'[t].res = "ok"
               /\ ba'.offsetStore[th[t].digest] = Region(t)

\* C1, as a state: the region of a Put that returned the stale-allocation error
\* is in no index entry and is found by no Get.
C1_NoDangling ==
    \A t \in Threads : th[t].res = "stale" =>
        /\ \A d \in Digests :
               ~(ba.offsetStore[d].ok /\ ba.offsetStore[d].offset = th[t].offset)
        /\ \A u \in Threads :
               ~(th[u].op = "get" /\ th[u].pc \in {"get_read", "inv_lock", "inv_body"}
                                 /\ th[u].offset = th[t].offset)

\* C1: a Put whose allocation is stale at the post-write re-check returns the
\* stale-allocation error and never commits an index entry for it, so no Get
\* finds that region; every index commit is made with a region contained in
\* the cursors read in the same critical section.
C1_StalePutLeavesNoEntry == [][C1_Recheck]_vars /\ []C1_NoDangling

\* A Put returned the stale-allocation error and a Get of the same digest
\* reported not-found.
C1_Witness ==
    \E t, u \in Threads :
        /\ th[t].res = "stale"
        /\ th[u].op = "get" /\ th[u].digest = th[t].digest /\ th[u].res = "notfound"

\* C2, as a step: a lookup made when the digest has no entry inside the current
\* cursors reports not-found (or the store's error); a lookup that finds an
\* entry finds one inside the current cursors.
C2_Lookup ==
    \A t \in Threads : LookupStep(t) =>
        /\ ~InSpan(ba.offsetStore[th[t].digest]) => th'[t].res \in {"notfound", "err_index"}
        /\ th'[t].pc = "get_read" => InSpan(ba.offsetStore[th[t].digest])

\* C2, as a state: what a Get hands its caller is the blob of the digest asked
\* for, or no bytes at all.
C2_NoForeignBytes ==
    \A t \in Threads : th[t].op = "get" /\ th[t].pc \in {"idle", "inv_lock", "inv_body"} =>
        /\ th[t].res = "data" => th[t].buf = Content(th[t].digest)
        /\ th[t].res # "data" => th[t].buf = <<>>

GetEnded(t) == th[t].op = "get" /\ th[t].res \in {"data", "integrity", "notfound"}

C3_ReadsCommitted ==
    \A t \in Threads : LookupStep(t) /\ th'[t].pc = "get_read" =>
        /\ th'[t].offset = ba.offsetStore[th[t].digest].offset
        /\ GetSizeBytes(th[t].digest) = ba.offsetStore[th[t].digest].length

\* C3, as a state: the round trip holds when, besides, no other Put wrote into
\* the cells of the region after they were written.
C3_RoundTripIntact ==
    \A t \in Threads : GetEnded(t) /\ th[t].fresh = "intact" =>
        th[t].res = "data" /\ th[t].buf = Content(th[t].digest)

C4_Step ==
    \A t \in Threads : FindMissingStep(t) /\ th'[t].res = "ok" =>
        /\ ba.lock = t
        /\ th'[t].digests = th[t].digests
        /\ th'[t].missing = {d \in th[t].digests : ~InSpan(ba.offsetStore[d])}
        /\ (\A d \in Digests : ~ba.offsetStore[d].ok) => th'[t].missing = th[t].digests
        /\ \A d \in th[t].digests : hist.quiet[d] => d \notin th'[t].missing

\* C4: the circular FindMissing returns exactly the requested digests that have
\* no index entry valid for the cursors read once in its single lock scope.
C4_FindMissingExact == [][C4_Step]_vars

\* A FindMissing for both digests reported exactly one of them missing, the
\* other one being committed and inside the cursors.
C4_Witness ==
    \E t \in Threads :
        /\ th[t].op = "fm" /\ th[t].res = "ok"
        /\ th[t].digests = Digests /\ Cardinality(th[t].missing) = 1
        /\ \E d \in Digests : InSpan(ba.offsetStore[d])

\* C5: FindMissing of the empty digest set returns the empty set and no error,
\* having made no OffsetStore lookup (circular) and no FindMissingBlobs call
\* (remote), whatever the state of the backend.
C5_EmptyRequest ==
    \A t \in Threads :
        th[t].op \in {"fm", "rfm"} /\ th[t].res # "none" /\ th[t].digests = {} =>
            th[t].res = "ok" /\ th[t].missing = {} /\ th[t].calls = {}

\* Both backends answered an empty request while the index held an entry.
C5_Witness ==
    \E t, u \in Threads :
        /\ th[t].op = "fm" /\ th[t].res = "ok" /\ th[t].digests = {}
        /\ th[u].op = "rfm" /\ th[u].res = "ok" /\ th[u].digests = {}
        /\ \E d \in Digests : ba.offsetStore[d].ok

\* --------------------------------------------------- claims, cloned buffer
HasReader(c) == cs[c].pc \in {"reading", "eof", "closed"}
HoldsCursor(c) == cs[c].pc \in {"recv", "reading"}
IsPrefix(q, r) == Len(q) <= Len(r) /\ q = SubSeq(r, 1, Len(q))

\* C6: all consumers of a fan-out observe the chunks of the source in the
\* same order, a consumer at the end of its stream has observed all of them,
\* and the source is never more than one chunk ahead of any open cursor.
C6_Lockstep ==
    \A c \in Calls :
        /\ IsPrefix(cs[c].got, Chunks)
        /\ cs[c].pc = "eof" => cs[c].got = Chunks
        /\ HoldsCursor(c) /\ mux.conversions > 0 =>
               mux.pos <= cs[c].round + 1 /\ Len(cs[c].got) = cs[c].round

\* Three consumers share the reader: two of them are at different chunks of
\* the stream, one chunk apart, and the third was discarded.
C6_Witness ==
    /\ mux.consumers = 3
    /\ \E c, d, e \in Calls :
        /\ cs[c].pc = "reading" /\ cs[c].got = <<"aa", "bb">>
        /\ cs[d].pc = "reading" /\ cs[d].got = <<"aa", "bb", "cc">>
        /\ cs[e].pc = "closed"

\* C7, as a state: the base buffer is converted at most once, exactly when the
\* pending count is zero; no call holds a reader before that; a waiting
\* consumer's channel is sent to once, by the construction.
C7_State ==
    /\ mux.conversions <= 1
    /\ mux.conversions = 1 <=> b.consumersRemaining = 0
    /\ \A c \in Calls :
          /\ HasReader(c) => mux.conversions = 1
          /\ cs[c].chan <= 1 /\ cs[c].sends <= 1
          /\ cs[c].pc = "recv" => cs[c].sends = mux.conversions
          /\ cs[c].sends = 1 =>
                \E i \in 1..Len(b.consumersWaiting) : b.consumersWaiting[i] = c

\* C7, as a step: the conversion is made by the call whose declaration brings
\* the pending count from one to zero.
C7_Step ==
    mux'.conversions # mux.conversions =>
        /\ b.consumersRemaining = 1 /\ b'.consumersRemaining = 0
        /\ \E c \in Calls : cs[c].pc = "body" /\ b.lock = c /\ cs'[c].pc = "reading"

\* C7: the base buffer is converted to a chunk reader exactly once, by the
\* handle whose declaration brings the pending count to zero; no terminal
\* operation obtains a reader before that; each waiting consumer's channel
\* receives exactly one value.
C7_Rendezvous == []C7_State /\ [][C7_Step]_vars

\* The reader was built for three consumers and both waiters have received it.
C7_Witness ==
    /\ mux.conversions = 1 /\ Len(b.consumersWaiting) = 2
    /\ \A i \in 1..2 : cs[b.consumersWaiting[i]].pc = "reading"
                        /\ cs[b.consumersWaiting[i]].sends = 1

\* C8: with every handle eventually consumed or discarded, a consumer blocked
\* on its channel is eventually woken and holds a reader, and no thread holds
\* the lock while it is blocked on its channel.
C8_Woken ==
    /\ [](\A c \in Calls : cs[c].pc = "recv" => b.lock # c)
    /\ \A c \in Calls : (cs[c].pc = "recv") ~> HasReader(c)

\* Two consumers are blocked on their channels while a third handle is still
\* to be consumed.
C8_Witness ==
    /\ Cardinality({c \in Calls : cs[c].pc = "recv"}) = 2
    /\ env.handles = 1 /\ mux.conversions = 0

\* A call has read the pending count and found it zero.
FoundFullyConsumed ==
    env.last.remaining = 0 /\ \A c \in Calls : cs[c].pc # "body"
ViolationDone ==
    env.last.violation /\ \A c \in Calls : cs[c].pc # "body"

C10_FanOutSize ==
    mux.conversions = 1 =>
        /\ mux.consumers = 1 + env.clones
        /\ mux.consumers = Len(b.consumersWaiting) + 1
        /\ mux.consumers = Cardinality({c \in Calls : HoldsCursor(c) \/ HasReader(c)})
        /\ ~env.tainted => env.handles = 0 /\ env.spent = mux.consumers

\* The reader was built for the three handles of two CloneStream calls.
C10_Witness ==
    /\ mux.conversions = 1 /\ env.clones = 2 /\ mux.consumers = 3
    /\ ~env.tainted /\ env.handles = 0

\* The calls that went through the body of toChunkReader without a panic.
Declared(c) == cs[c].pc \in {"recv", "reading", "eof", "closed"}

\* C11: the constraint kept by the buffer, and the chain built from it, is the
\* validated one exactly when some consumer that declared asked for
\* validation, whatever the order of the declarations; it is the unvalidated
\* chain only when every consumer was a Discard or an unvalidated reader.
C11_Infectious ==
    /\ b.needsValidation <=> \E c \in Calls : Declared(c) /\ cs[c].needsValidation
    /\ mux.conversions > 0 => (mux.validated <=> b.needsValidation)

\* The first consumer asked for validation, the last one (the one that builds
\* the chain) did not, a third was discarded: the chain is the validated one.
C11_Witness ==
    /\ mux.conversions = 1 /\ mux.validated /\ ~env.tainted
    /\ cs[1].needsValidation /\ Declared(1)
    /\ cs[2].discard /\ Declared(2)
    /\ ~cs[3].needsValidation /\ cs[3].pc = "reading"

\* C12, as a state: a conversion, or the first read of a reader, returned the
\* error stored in the buffer it was called on; a clone returned two error
\* buffers carrying it; Discard returned nothing.
C12_State ==
    /\ \A i \in DOMAIN eb.handles :
          eb.handles[i].kind = "error" /\ eb.handles[i].err \in Errors
    /\ eb.last.op \in Conversions \cup Readers =>
          eb.last.err = eb.last.on /\ eb.last.on \in Errors
    /\ eb.last.op \in {"CloneCopy", "CloneStream"} =>
          eb.last.bufs = <<ErrorBuffer(eb.last.on), ErrorBuffer(eb.last.on)>>
    /\ eb.last.op = "Discard" => eb.last.err = NoError /\ eb.last.bufs = <<>>

\* C12, as a step: no conversion, clone or Discard changes the error stored in
\* a buffer, so the next operation on it returns that error again.
C12_Step ==
    eb'.last.op \in Conversions \cup Readers \cup {"CloneCopy", "CloneStream", "Discard"} =>
        /\ {eb'.handles[i].err : i \in DOMAIN eb'.handles}
               \subseteq {eb.handles[i].err : i \in DOMAIN eb.handles}
        /\ eb'.last.on \in {eb.handles[i].err : i \in DOMAIN eb.handles}
        /\ eb'.last.op # "Discard" => Len(eb'.handles) >= Len(eb.handles)

\* C12: every conversion of an error buffer returns the stored error, in every
\* sequence of operations; CloneCopy and CloneStream return two error buffers
\* with that error; Discard does nothing and does not fail.
C12_SameStoredError == []C12_State /\ [][C12_Step]_vars

\* A buffer built from an integrity error was cloned twice, and the first read
\* of a chunk reader of one of the three buffers has failed with that error.
C12_Witness ==
    /\ Len(eb.handles) = 3
    /\ \A i \in 1..3 : eb.handles[i] = ErrorBuffer("integrity")
    /\ eb.last.op = "ToChunkReader" /\ eb.last.err = "integrity"

\* C13: applyErrorHandler of an error buffer calls OnError once, with the
\* stored error; on a translated error Done is called once and an error buffer
\* with the translated error is returned with the retry flag false; otherwise
\* the replacement is returned with the flag true and Done is not called.
C13_ApplyErrorHandler ==
    eb.last.op = "applyErrorHandler" =>
        /\ eb.last.onError = <<eb.last.on>> /\ eb.last.on \in Errors
        /\ IF eb.last.answer[2] # NoError
           THEN /\ eb.last.done = 1
                /\ eb.last.bufs = <<ErrorBuffer(eb.last.answer[2])>>
                /\ ~eb.last.retry
           ELSE /\ eb.last.done = 0
                /\ eb.last.bufs = <<eb.last.answer[1]>>
                /\ eb.last.retry

\* The policy answered an unavailable buffer with a replacement: it is
\* returned for a retry, and Done has not been called.
C13_Witness ==
    /\ eb.last.op = "applyErrorHandler" /\ eb.last.on = "unavailable"
    /\ eb.last.answer = <<Replacement, NoError>>
    /\ eb.last.retry /\ eb.last.done = 0 /\ Len(eb.last.onError) = 1

\* The buffers an operation of the error handling buffer has used so far.
UsedSources == {eh.base} \cup {eh.answers[j][1] : j \in {j \in DOMAIN eh.answers :
                                                        eh.answers[j][2] = NoError}}

\* C14: a whole-buffer operation runs attempt 1 against the base and attempt
\* j+1 against the replacement OnError returned for the error of attempt j; it
\* ends with the value of the first attempt that did not fail, or with the
\* translated error, as one result, and Done is called once, at the end.
C14_WholeBuffer ==
    eh.op \in WholeOps =>
        LET k == Len(eh.attempts)
            a == Len(eh.answers)
        IN  /\ \A j \in 1..k :
                   eh.attempts[j].src = IF j = 1 THEN eh.base ELSE eh.answers[j - 1][1]
            /\ \A j \in 1..(k - 1) : ~Returned(eh.attempts[j].err)
            /\ eh.onError = [j \in 1..a |-> eh.attempts[j].err]
            /\ \A j \in 1..(a - 1) : eh.answers[j][2] = NoError
            /\ eh.pc # "done" => eh.done = 0 /\ eh.res = NoResult
            /\ eh.pc = "done" =>
                   /\ eh.done = 1
                   /\ IF a = k
                      THEN /\ eh.answers[a][2] # NoError
                           /\ eh.res = [err |-> eh.answers[a][2], data |-> <<>>]
                      ELSE /\ k = a + 1
                           /\ Returned(eh.res.err)
                           /\ eh.res = BaseCall(eh.attempts[k].src, eh.op, eh.arg)
                           /\ eh.res.data = IF eh.op = "ReadAt"
                                             THEN SubSeq(Blob, eh.arg + 1,
                                                         Min(eh.arg + 2, Len(Blob)))
                                             ELSE Blob

\* The base failed on its first read, the replacement holds the same content:
\* ToByteSlice has returned the content, once, after one call of OnError.
C14_Witness ==
    /\ eh.op = "ToByteSlice" /\ eh.pc = "done"
    /\ eh.base.data = Blob /\ eh.base.fails /\ eh.base.at = 0
    /\ Len(eh.attempts) = 2 /\ eh.onError = <<"unavailable">>
    /\ eh.res = [err |-> NoError, data |-> Blob] /\ eh.done = 1

\* C15: in a streaming operation the bytes passed downstream are bytes 1, 2,
\* ... of the buffers read, each position once and none left out, wherever the
\* transport failed; with replacements of the same content they are a prefix
\* of the blob, and the whole blob when the stream ends without an error.
C15_Resume ==
    eh.op \in StreamOps =>
        /\ eh.from = [i \in 1..Len(eh.from) |-> i]
        /\ Len(eh.delivered) = Len(eh.from) /\ eh.off = Len(eh.delivered)
        /\ eh.pc = "stream" => eh.rpos = eh.off
        /\ (\A src \in UsedSources : src.data = Blob) =>
               /\ IsPrefix(eh.delivered, Blob)
               /\ eh.pc = "done" =>
                      \/ eh.res = [err |-> NoError, data |-> Blob]
                      \/ eh.answers[Len(eh.answers)][2] = eh.res.err
        /\ eh.res.err = NoError => eh.delivered = Blob

\* The transport failed after one byte and, on the replacement, after two; the
\* second replacement delivered the rest and the stream ended well.
C15_Witness ==
    /\ eh.op = "IntoWriter" /\ eh.pc = "done" /\ eh.res.err = NoError
    /\ eh.base.fails /\ eh.base.at = 1
    /\ Len(eh.answers) = 2
    /\ eh.answers[1][1].fails /\ eh.answers[1][1].at = 2 /\ eh.answers[1][1].chunk = 2
    /\ eh.delivered = Blob

\* C16 as claimed: in no operation, streaming or whole-buffer, is an integrity
\* error passed to OnError.
C16_AsClaimed == \A j \in DOMAIN eh.onError : eh.onError[j] # "integrity"

\* C16: in a streaming operation an integrity error is the result of the
\* stream and is never passed to OnError, which sees the errors of the
\* transport only; a stream that ends without an error delivered the blob.  In
\* a whole-buffer operation the integrity error of an attempt is passed to
\* OnError like any other error.
C16_StreamIntegrityFinal ==
    /\ eh.op \in StreamOps =>
          /\ \A j \in DOMAIN eh.onError : eh.onError[j] = "unavailable"
          /\ eh.res.err = "integrity" =>
                 /\ eh.pc = "done" /\ eh.delivered # Blob
                 /\ Len(eh.onError) = Len(eh.attempts)
                 /\ \A j \in DOMAIN eh.answers : eh.answers[j][2] = NoError
          /\ eh.pc = "done" /\ eh.delivered # Blob =>
                 eh.res.err # NoError
    /\ eh.op \in WholeOps =>
          \A j \in DOMAIN eh.attempts : eh.attempts[j].err = "integrity" =>
              \/ j \in DOMAIN eh.onError /\ eh.onError[j] = "integrity"
              \/ j = Len(eh.attempts) /\ eh.pc = "onerror"

\* A stream was resumed on a replacement with other content after a failure
\* of the transport, and has ended in an integrity error; OnError has seen the
\* failure of the transport only.
C16_Witness ==
    /\ eh.op \in StreamOps /\ eh.pc = "done" /\ eh.res.err = "integrity"
    /\ eh.onError = <<"unavailable">> /\ Len(eh.delivered) = Len(Blob)

\* The positions of a goroutine between ba.lock.Lock() and ba.lock.Unlock().
Locked == {"put_alloc", "put_commit", "get_lookup", "inv_body", "fm_body"}

\* C17, as a state: a goroutine is between Lock and Unlock (where GetCursors,
\* Allocate, Invalidate and the OffsetStore are called) exactly when it holds
\* the lock; at most one goroutine is there; a goroutine that has returned
\* does not hold it.
C17_State ==
    /\ \A t \in Threads : th[t].pc \in Locked <=> ba.lock = t
    /\ Cardinality({t \in Threads : th[t].pc \in Locked}) <= 1
    /\ ba.lock \in Threads \cup {NoThread}

\* C17, as a step: the StateStore and the OffsetStore change only in a step of
\* the goroutine that holds the lock, which releases it in that step; the
\* DataStore changes only in a step of a Put that does not hold the lock.
C17_Step ==
    /\ ba'.stateStore # ba.stateStore \/ ba'.offsetStore # ba.offsetStore =>
           \E t \in Threads : /\ ba.lock = t /\ th[t].pc \in Locked
                               /\ th'[t].pc \notin Locked /\ ba'.lock = NoThread
    /\ ba'.dataStore # ba.dataStore =>
           \E t \in Threads : /\ th[t].pc = "put_write" /\ ba.lock # t
                               /\ th'[t].n = th[t].n + 1 /\ ba'.lock = ba.lock
    /\ \A t \in Threads : ba.lock = t /\ th'[t] # th[t] => ba'.lock = NoThread

\* C17: every call of the StateStore and of the OffsetStore is made by the one
\* goroutine holding the lock, DataStore.Put runs without the lock, and every
\* path gives the lock back.
C17_LockDiscipline == []C17_State /\ [][C17_Step]_vars

\* One Put is writing its second byte to the DataStore while another
\* goroutine is inside the lock, about to allocate.
C17_Witness ==
    \E t, u \in Threads :
        /\ th[t].pc = "put_write" /\ th[t].n = 1
        /\ th[u].pc = "put_alloc" /\ ba.lock = u

\* The step of the callback of Get, and the steps of a Get after its lookup.
InvalidateStep(t) == th[t].pc = "inv_body" /\ th'[t].pc = "idle"
Reading(t) == th[t].pc \in {"get_read", "inv_lock", "inv_body"}

\* C18, as a step: Invalidate is called under the lock with the offset and the
\* length Get looked up; whether it fails or not the reader keeps its
\* integrity error and the index is left alone; a Get whose data was valid
\* never gets there, and the StateStore changes in no other step of a Get.
C18_Step ==
    \A t \in Threads :
        /\ LookupStep(t) /\ th'[t].pc = "get_read" =>
               LET e == OffsetStoreGet(ba.offsetStore, th[t].digest, ba.stateStore)
               IN  e.ok /\ th'[t].offset = e.offset
                        /\ GetSizeBytes(th'[t].digest) = e.length
        /\ Reading(t) /\ Reading(t)' =>
               th'[t].offset = th[t].offset /\ th'[t].digest = th[t].digest
        /\ InvalidateStep(t) =>
               /\ ba.lock = t /\ ba'.lock = NoThread
               /\ th[t].res = "integrity" /\ th'[t].res = "integrity"
               /\ ba'.stateStore \in
                      {Invalidate(ba.stateStore, th[t].offset, GetSizeBytes(th[t].digest)),
                       ba.stateStore}
               /\ ba'.offsetStore = ba.offsetStore
        /\ th[t].op = "get" /\ ~InvalidateStep(t)
              /\ (th'[t].pc # th[t].pc \/ th'[t].n # th[t].n) =>
               ba'.stateStore = ba.stateStore
        /\ th[t].pc = "get_read" /\ th'[t].res = "data" => th'[t].pc = "idle"

\* C18: a Get whose data failed validation calls Invalidate under the lock for
\* the region it looked up and reports the integrity error whatever Invalidate
\* returns; a Get whose data was valid does not call it.
C18_Invalidation ==
    /\ [](\A t \in Threads : th[t].pc \in {"inv_lock", "inv_body"} =>
                                th[t].op = "get" /\ th[t].res = "integrity")
    /\ [][C18_Step]_vars

\* A Get has ended in an integrity error and its callback has invalidated the
\* region it read, the newest of the ring: nothing is left between the cursors.
C18_Witness ==
    \E t \in Threads :
        /\ th[t].op = "get" /\ th[t].pc = "idle" /\ th[t].res = "integrity"
        /\ ba.stateStore.Read = ba.stateStore.Write /\ ba.stateStore.Write > 0

\* The data bytes of a sequence of messages, in the order they were sent.
RECURSIVE Bytes(_)
Bytes(m) == IF m = <<>> THEN <<>> ELSE m[1].Data \o Bytes(Tail(m))

\* C19: of the messages Put sent, the first carries the resource name and
\* offset 0, the others no name; each offset is the number of data bytes sent
\* before; the finish flag is on one message, the last, sent after the source
\* reported io.EOF; the acknowledgment is awaited after it only; a failing
\* reader or Send ends Put with no finish message sent.
C19_MessageStream ==
    rm.op = "put" =>
        LET m == rm.sent
            n == Len(rm.sent)
        IN  /\ n >= 1 => /\ m[1].ResourceName =
                                UploadName(rm.instance, "uuid", Sum(rm.sizes))
                         /\ m[1].ResourceName # NoName
            /\ \A i \in 2..n : m[i].ResourceName = NoName
            /\ \A i \in 1..n : m[i].WriteOffset = Len(Bytes(SubSeq(m, 1, i - 1)))
            /\ \A i \in 1..n : m[i].FinishWrite =>
                   /\ i = n /\ rm.eof /\ rm.read = Len(rm.sizes)
                   /\ m[i].Data = <<>> /\ rm.pc \in {"ack", "idle"}
            /\ rm.acks <= 1
            /\ rm.pc = "ack" \/ rm.acks = 1 => n >= 1 /\ m[n].FinishWrite
            /\ rm.res \in {"ok", "err_ack"} =>
                   /\ rm.acks = 1
                   /\ Bytes(m) = [i \in 1..Sum(rm.sizes) |-> i]
                   /\ m[n].WriteOffset = Sum(rm.sizes)
            /\ rm.res \in {"err_open", "err_read", "err_send"} =>
                   /\ rm.acks = 0
                   /\ \A i \in 1..n : ~m[i].FinishWrite

\* A blob of two chunks was uploaded under an instance name: two data
\* messages and the finish message were sent, and the upload was acknowledged.
C19_Witness ==
    /\ rm.op = "put" /\ rm.res = "ok" /\ rm.instance = "i"
    /\ Len(rm.sent) = 3 /\ rm.sent[2].WriteOffset = 2
    /\ rm.sent[3].FinishWrite /\ rm.sent[3].WriteOffset = 3

\* The instance names of the digests asked about, and of the calls made.
Asked == {x[1] : x \in rm.digests}
Called == {rm.calls[j].InstanceName : j \in DOMAIN rm.calls}

\* C20 as claimed: whenever FindMissing has returned, one call was made for
\* every instance name of the request.
C20_AsClaimed ==
    rm.op = "fm" /\ rm.pc = "idle" =>
        Called = Asked /\ Len(rm.calls) = Cardinality(Asked)

\* C20: FindMissing makes at most one call per instance name of the request,
\* each with all and only the digests of that instance; when no call fails
\* every instance is called and the result is the union of the replies, each
\* digest under the instance of its call; at the first failure no further call
\* is made and the result is the empty set with the error.
C20_PerNamespace ==
    rm.op = "fm" =>
        /\ \A j \in DOMAIN rm.calls :
              /\ rm.calls[j].InstanceName \in Asked
              /\ rm.calls[j].BlobDigests =
                     {x[2] : x \in {y \in rm.digests : y[1] = rm.calls[j].InstanceName}}
              /\ \A k \in DOMAIN rm.calls :
                     rm.calls[k].InstanceName = rm.calls[j].InstanceName => k = j
        /\ rm.todo = Asked \ Called
        /\ rm.res = "ok" =>
              /\ rm.pc = "idle" /\ Called = Asked
              /\ rm.missing = UNION {{<<rm.calls[j].InstanceName, d>> : d \in rm.replies[j]} :
                                        j \in DOMAIN rm.calls}
              /\ rm.missing \subseteq rm.digests
        /\ rm.res \in {"err_rpc", "err_digest"} => rm.pc = "idle" /\ rm.missing = {}
        /\ rm.res = "none" => rm.pc = "calls" /\ rm.todo # {}

\* Digests of two instances were asked about; both calls were made, and each
\* reported a digest missing.
C20_Witness ==
    /\ rm.op = "fm" /\ rm.res = "ok" /\ Len(rm.calls) = 2
    /\ rm.digests = RemoteDigests
    /\ rm.missing = {<<"", 1>>, <<"i", 2>>}

\* C21, as a state: of the operations of the interface only Discard passes
\* needsValidation = false; a discarded handle asks for no validation, reads
\* nothing and is the only kind of consumer that closes its cursor unread.
C21_State ==
    /\ \A op \in TerminalOps : ~NeedsValidationOf(op) <=> op = "Discard"
    /\ \A c \in Calls :
          /\ cs[c].discard => ~cs[c].needsValidation /\ cs[c].got = <<>>
          /\ cs[c].pc = "closed" => cs[c].discard
          /\ cs[c].pc = "eof" => ~cs[c].discard /\ cs[c].got = Chunks
    /\ mux.closed = Cardinality({c \in Calls : cs[c].pc = "closed"})

\* C21, as a step: the toChunkReader call of a Discard takes one off the
\* pending count and leaves the validation constraint as it was.
C21_Step ==
    \A c \in Calls :
        cs[c].discard /\ cs[c].pc = "body" /\ cs'[c].pc \in {"recv", "reading"} =>
            /\ b'.consumersRemaining = b.consumersRemaining - 1
            /\ b'.needsValidation = b.needsValidation

\* C21: a Discard is the consumption of its handle: it declares without asking
\* for validation and closes its cursor, and every other consumer of the
\* fan-out still reads the chunks to the end of the stream.
C21_Discard ==
    /\ []C21_State
    /\ [][C21_Step]_vars
    /\ \A c \in Calls :
          /\ (Declared(c) /\ cs[c].discard) ~> (cs[c].pc = "closed")
          /\ (Declared(c) /\ ~cs[c].discard) ~> (cs[c].pc = "eof" /\ cs[c].got = Chunks)

\* Of three handles the first two were discarded, and closed before a chunk
\* was read; the third has read the whole stream, which was not validated.
C21_Witness ==
    /\ cs[1].pc = "closed" /\ cs[1].round = 0
    /\ cs[2].pc = "closed" /\ cs[2].round = 0
    /\ cs[3].pc = "eof" /\ cs[3].got = Chunks
    /\ mux.consumers = 3 /\ b.consumersRemaining = 0

\* C22, as a state: an error handling buffer that was consumed by a
\* whole-buffer operation, by Discard or by a ToChunkReader beyond the size of
\* the blob has had Done called once; before that it was not called.
C22_State ==
    eh.op \in WholeOps \cup {"Discard", "ToChunkReaderBeyond"} =>
        /\ eh.pc = "done" => eh.done = 1
        /\ eh.pc # "done" => eh.done = 0
        /\ eh.op \in {"Discard", "ToChunkReaderBeyond"} =>
               eh.onError = <<>> /\ eh.baseDiscards = 1

\* C22, as a step: once Done was called neither OnError nor Done is called
\* again; the step that calls Done is the one that ends the operation.
C22_Step ==
    /\ eh.done >= 1 => eh'.onError = eh.onError /\ eh'.done = eh.done
    /\ eh'.done # eh.done => eh.pc # "done" /\ eh'.pc = "done"

\* C22: on each terminal path of an error handling buffer (whole-buffer
\* operation, Discard, ToChunkReader with an offset beyond the blob) Done is
\* called exactly once, and OnError is not called after it.
C22_Release == []C22_State /\ [][C22_Step]_vars

\* A whole-buffer operation has failed on the base and on two replacements,
\* and the handler translated the third error: three calls of OnError, then
\* one of Done.
C22_Witness ==
    /\ eh.op = "ReadAt" /\ eh.pc = "done"
    /\ Len(eh.onError) = MaxRetries + 1 /\ eh.done = 1
    /\ eh.res.err = "internal"

\* The positions of a Put between b.ToReader() and its return.
PutPositions == {"put_lock1", "put_alloc", "put_write", "put_lock2", "put_commit"}

\* C23, as a state: a Put that could not size its buffer has discarded it; any
\* other Put holds the reader of its buffer until it returns, and has closed
\* it when it has returned, whatever it returns.
C23_State ==
    \A t \in Threads : th[t].op = "put" =>
        /\ th[t].res = "err_size" <=> th[t].buffer = "discarded"
        /\ th[t].pc \in PutPositions <=> th[t].buffer = "reader"
        /\ th[t].pc = "idle" /\ th[t].res # "err_size" => th[t].buffer = "closed"

\* C23, as a step: a Put that cannot size its buffer calls no store; a failing
\* Allocate or DataStore.Put ends Put with that error and with the index as it
\* was, and after a failed write the cursors stay where Allocate put them; the
\* buffer goes from unused to discarded, or from unused to read to closed.
C23_Step ==
    \A t \in Threads :
        /\ th'[t].res = "err_size" /\ th[t].res # "err_size" =>
               /\ th[t].pc = "idle" /\ th'[t].pc = "idle" /\ ba' = ba
        /\ th'[t].res = "err_alloc" /\ th[t].res # "err_alloc" =>
               /\ th[t].pc = "put_alloc" /\ th'[t].pc = "idle"
               /\ ba'.offsetStore = ba.offsetStore /\ ba'.dataStore = ba.dataStore
               /\ ba'.stateStore = ba.stateStore
        /\ th'[t].res = "err_write" /\ th[t].res # "err_write" =>
               /\ th[t].pc = "put_write" /\ th'[t].pc = "idle"
               /\ ba'.offsetStore = ba.offsetStore /\ ba'.dataStore = ba.dataStore
               /\ ba'.stateStore = ba.stateStore
               /\ ba.stateStore.Write >= th[t].offset + GetSizeBytes(th[t].digest)
        /\ th'[t].buffer # th[t].buffer =>
               <<th[t].buffer, th'[t].buffer>> \in
                   {<<"none", "reader">>, <<"none", "discarded">>, <<"reader", "closed">>,
                    <<"closed", "reader">>, <<"closed", "discarded">>, <<"closed", "none">>,
                    <<"discarded", "reader">>, <<"discarded", "discarded">>,
                    <<"discarded", "none">>}
        /\ th[t].buffer = "reader" /\ th'[t].buffer # "reader" =>
               th'[t].buffer = "closed" /\ th'[t].pc = "idle"
        /\ ba'.offsetStore # ba.offsetStore =>
               \E u \in Threads : th[u].pc = "put_commit" /\ th'[u].res = "ok"

\* C23: the failure paths of Put: no store is called when the buffer cannot be
\* sized; after a failed Allocate or DataStore.Put the index is unchanged and
\* OffsetStore.Put is not called; the buffer is consumed once on every path.
C23_FailurePaths == []C23_State /\ [][C23_Step]_vars

\* One Put has failed while writing, after Allocate moved the write cursor,
\* and has closed its reader; another could not size its buffer and has
\* discarded it; the index is empty.
C23_Witness ==
    \E t, u \in Threads :
        /\ th[t].op = "put" /\ th[t].res = "err_write" /\ th[t].buffer = "closed"
        /\ th[u].op = "put" /\ th[u].res = "err_size" /\ th[u].buffer = "discarded"
        /\ ba.stateStore.Write > 0
        /\ \A d \in Digests : ~ba.offsetStore[d].ok

====
